---- MODULE Spec2Model ----
(***************************************************************************)
(* speedlingo (main.go): fork a repository on the forge, poll until the    *)
(* fork is readable, clone it into a temporary directory, inject the lingo *)
(* configuration, run the lingo tool and, in rewrite mode, commit the      *)
(* result on the branch "rewrite" and push it.                             *)
(*                                                                         *)
(* The program is one sequential process; pc is its position in main.go.   *)
(* Every call into the operating system, the forge client, go-git or the   *)
(* tool is one step whose outcome (success or error, and the data it       *)
(* returns) is chosen by the environment.                                  *)
(***************************************************************************)
EXTENDS Integers, Sequences, FiniteSets, TLC

\* ---------------------------------------------------------------- bounds
\* Longest time, in seconds, a single readiness query may take to answer.
MaxCallSecs == 1
\* How many readiness queries of one run take more than no time at all.
MaxSlowCalls == 1

\* ------------------------------------------------------ program constants
TimeoutSecs == 300
SleepSecs == 2
NumArgs == 4

yamlDataReview == <<"tenets:", "import: codelingo/code-review-comments", "import: codelingo/effective-go">>
yamlDataRewrite == <<"tenets:", "import: codelingo/effective-go/comment-first-word-as-subject">>
ignoreData == <<"vendor/">>
yamlName == "codelingo.yaml"
ignoreFileName == ".codelingoignore"
branchName == "rewrite"

\* ------------------------------------------------------------ environment
\* os.Args: the number of arguments and the command word os.Args[1].
ArgCounts == {3, 4}
Commands == {"review", "rewrite", "lint"}

\* config.yaml as found on disk: missing, well formed, or carrying a field
\* the config struct does not declare.
ConfigFiles ==
  { [exists |-> FALSE, username |-> "", email |-> "", token |-> "", extra |-> FALSE],
    [exists |-> TRUE, username |-> "alice", email |-> "alice@example.com", token |-> "t0k3n", extra |-> FALSE],
    [exists |-> TRUE, username |-> "alice", email |-> "alice@example.com", token |-> "t0k3n", extra |-> TRUE] }

ZeroConfig == [username |-> "", email |-> "", token |-> ""]

\* Error messages are sequences of words; NoErr is the nil error.
NoErr == <<>>
ScheduledMsg == <<"job scheduled on GitHub side;", "try again later">>
ForkErrors ==
  { NoErr,
    ScheduledMsg,
    <<"POST /forks:", "202">> \o ScheduledMsg,
    <<"job scheduled on GitHub side;">>,
    <<"try again later">>,
    <<"POST /forks:", "404", "Not Found">> }

\* Moments (seconds after the start of the run) at which the fork may become
\* readable on the forge, for the runs in which it becomes readable at all.
ReadyTimes == {0, TimeoutSecs + 1}

\* strings.Contains on word sequences: sub occurs in s as a contiguous run.
Contains(s, sub) ==
  \E i \in 1..(Len(s) + 1) :
    /\ i + Len(sub) - 1 <= Len(s)
    /\ SubSeq(s, i, i + Len(sub) - 1) = sub

\* yaml.UnmarshalStrict into the config struct: the declared fields are
\* decoded, a field the struct does not declare is reported as an error.
UnmarshalStrict(f) ==
  [result |-> [username |-> f.username, email |-> f.email, token |-> f.token],
   err |-> f.extra]

\* A loader that returns the empty config on every path.
MutantUnmarshalReturnsZeroConfig(f) == [result |-> ZeroConfig, err |-> ~f.exists]

\* unmarshalConfigFile: only the read error is returned; the error of
\* UnmarshalStrict is assigned and then dropped (return result, nil).
unmarshalConfigFile(f) ==
  IF ~f.exists
    THEN [result |-> ZeroConfig, err |-> TRUE]
    ELSE [result |-> UnmarshalStrict(f).result, err |-> FALSE]


\* ------------------------------------------------------------ git objects
\* Commits: "D" is the head of the fork's default branch, "R" a commit an
\* earlier rewrite run left on the fork's branch "rewrite" (its parent is "D"),
\* "N" the commit this run creates.  ZeroHash is plumbing.ZeroHash.
ZeroHash == "0000"
BranchNames == {"master", "rewrite"}

\* File contents are word sequences, like the yamlData constants.
OrigSource == <<"package main", "// main runs">>
ToolSource == <<"package main", "// Main runs">>
OrigYaml == <<"tenets:", "import: acme/house-rules">>
OrigIgnore == <<"testdata/">>
DepSource == <<"package dep">>

\* A tree (HEAD tree, index, working tree) maps the paths it holds to contents.
EmptyTree == [p \in {} |-> <<>>]
WriteFile(t, p, c) == [q \in (DOMAIN t) \cup {p} |-> IF q = p THEN c ELSE t[q]]
DeleteFile(t, p) == [q \in (DOMAIN t) \ {p} |-> t[q]]

\* What the default branch of the fork may track next to main.go: the two
\* scaffolding names, and "vendor" as nothing, a regular file, a directory,
\* or a directory of another name.
VendorKinds == {"none", "file", "dir", "otherdir"}
VendorTree(k) ==
  CASE k = "file" -> [p \in {"vendor"} |-> DepSource]
    [] k = "dir" -> [p \in {"vendor/dep.go"} |-> DepSource]
    [] k = "otherdir" -> [p \in {"third_party/dep.go"} |-> DepSource]
    [] OTHER -> EmptyTree
RepoTree(hasYaml, hasIgnore, k) ==
  [p \in {"main.go"} \cup (IF hasYaml THEN {yamlName} ELSE {})
          \cup (IF hasIgnore THEN {ignoreFileName} ELSE {})
          \cup DOMAIN VendorTree(k) |->
     CASE p = "main.go" -> OrigSource
       [] p = yamlName -> OrigYaml
       [] p = ignoreFileName -> OrigIgnore
       [] OTHER -> VendorTree(k)[p]]
RepoTrees == { RepoTree(y, i, k) : y \in BOOLEAN, i \in BOOLEAN, k \in VendorKinds }

\* The branches of the fork before the run: the default branch at "D", and
\* possibly a branch "rewrite" at "D" or at the earlier commit "R".
ForkRefs ==
  { [b \in {"master"} |-> "D"],
    [b \in {"rewrite"} |-> "D"],
    [b \in BranchNames |-> IF b = "master" THEN "D" ELSE "R"],
    [b \in BranchNames |-> "D"] }
DefaultBranchOf(refs) == IF "master" \in DOMAIN refs THEN "master" ELSE "rewrite"

\* ioutil.ReadDir on the workspace root: the names of its entries and whether
\* each is a directory.
ReadDir(t) ==
  { [name |-> p, isDir |-> FALSE] : p \in {q \in DOMAIN t : q \notin {"vendor/dep.go", "third_party/dep.go"}} }
    \cup (IF "vendor/dep.go" \in DOMAIN t THEN {[name |-> "vendor", isDir |-> TRUE]} ELSE {})
    \cup (IF "third_party/dep.go" \in DOMAIN t THEN {[name |-> "third_party", isDir |-> TRUE]} ELSE {})

\* A scan that looks at the name of the entry only.
MutantNeedsIgnoreFileAnyVendor(files) == \E file \in files : file.name = "vendor"

\* The scan of lines 184-189 and 268-273.
NeedsIgnoreFile(files) == \E file \in files : file.name = "vendor" /\ file.isDir

VARIABLES
  argc, command,          \* len(os.Args), os.Args[1]
  pc,                     \* position in main.go
  exitCode, exitAt,       \* -1 while running; the step the process ended in
  configOnDisk, conf,     \* config.yaml as read; the global conf
  err,                    \* main's err: the last forge error
  forkRequested,          \* CreateFork was issued
  forkEverReady, forkReadyAt, \* the forge: whether and when Get can succeed
  now, timeout,           \* the clock, the deadline of the polling loop
  nGet, slowCalls,        \* readiness queries issued; those that took time
  getOk, getOkLate,       \* a query succeeded; it answered after the deadline
  dirCreated, dirExists,  \* the temporary directory
  defaultBranch, remoteRefs, \* the fork on the forge
  clonedRefs,             \* the branches of the fork when it was cloned
  objects,                \* commits in the local object store
  localRefs, head,        \* refs/heads of the clone, the branch HEAD names
  headTree, index, wt,    \* tree of the cloned HEAD, the index, the working tree
  needsIgnoreFile,        \* the handler's local
  toolSaw,                \* the working tree when the tool was started
  commitHash, commitTree, commitParent, commitBranch, commitAuthor,
  commitErr,              \* worktree.Commit returned an error
  pushAuth,               \* password handed to Push
  ops                     \* operations attempted since the polling loop, in order

vars == << argc, command, pc, exitCode, exitAt, configOnDisk, conf, err,
           forkRequested, forkEverReady, forkReadyAt, now, timeout, nGet,
           slowCalls, getOk, getOkLate, dirCreated, dirExists, defaultBranch,
           remoteRefs, clonedRefs, objects, localRefs, head, headTree, index, wt,
           needsIgnoreFile, toolSaw, commitHash, commitTree, commitParent,
           commitBranch, commitAuthor, commitErr, pushAuth, ops >>

startVars == << argc, command >>
confVars == << configOnDisk, conf >>
forgeVars == << err, forkRequested, forkEverReady, forkReadyAt, now, timeout,
                nGet, slowCalls, getOk, getOkLate >>
dirVars == << dirCreated, dirExists >>
remoteVars == << defaultBranch, remoteRefs, clonedRefs >>
repoVars == << objects, localRefs, head, headTree, index >>
commitVars == << commitHash, commitTree, commitParent, commitBranch, commitAuthor,
                 commitErr >>

Init ==
  /\ argc \in ArgCounts
  /\ command \in Commands
  /\ pc = "start"
  /\ exitCode = -1
  /\ exitAt = "none"
  /\ configOnDisk = [exists |-> FALSE, username |-> "", email |-> "", token |-> "", extra |-> FALSE]
  /\ conf = ZeroConfig
  /\ err = NoErr
  /\ forkRequested = FALSE
  /\ forkEverReady = FALSE
  /\ forkReadyAt = 0
  /\ now = 0
  /\ timeout = 0
  /\ nGet = 0
  /\ slowCalls = 0
  /\ getOk = FALSE
  /\ getOkLate = FALSE
  /\ dirCreated = FALSE
  /\ dirExists = FALSE
  /\ defaultBranch = "master"
  /\ remoteRefs = [b \in {"master"} |-> "D"]
  /\ clonedRefs = [b \in {} |-> "D"]
  /\ objects = {}
  /\ localRefs = [b \in {} |-> "D"]
  /\ head = "none"
  /\ headTree = EmptyTree
  /\ index = EmptyTree
  /\ wt = EmptyTree
  /\ needsIgnoreFile = FALSE
  /\ toolSaw = EmptyTree
  /\ commitHash = ZeroHash
  /\ commitTree = EmptyTree
  /\ commitParent = ZeroHash
  /\ commitBranch = "none"
  /\ commitAuthor = [name |-> "", email |-> ""]
  /\ commitErr = FALSE
  /\ pushAuth = ""
  /\ ops = <<>>

\* -------------------------------------------------------- process endings
\* os.Exit(1), reached through log.Fatal or directly (line 55): the process
\* ends at once; deferred calls do not run, so the step that ends the process
\* leaves the temporary directory as it is.
LogFatal(stage) ==
  /\ pc' = "done"
  /\ exitCode' = 1
  /\ exitAt' = stage

\* A removal that leaves the directory where it is.
MutantRemoveAllKeepsDir == UNCHANGED << dirExists, wt >>

\* os.RemoveAll(dir): the directory and the clone in it are gone.
RemoveAll ==
  /\ dirExists' = FALSE
  /\ wt' = EmptyTree

\* main returns (line 133): the deferred os.RemoveAll(dir) of line 102 runs
\* and the process ends with status 0.
MainReturn ==
  /\ pc = "return"
  /\ pc' = "done"
  /\ exitCode' = 0
  /\ exitAt' = "return"
  /\ RemoveAll
  /\ UNCHANGED << startVars, confVars, forgeVars, dirCreated, remoteVars,
                  repoVars, needsIgnoreFile, toolSaw, commitVars, pushAuth, ops >>

\* ------------------------------------------------------------------ main
\* A usage check that also looks at the command word.
MutantUsageErrorChecksCommand(n, cmd) == n # NumArgs \/ cmd \notin {"review", "rewrite"}

\* Line 53: the usage test looks at the number of arguments only.
UsageError(n, cmd) == n # NumArgs

\* Lines 53-56: the argument count.
CheckArgs ==
  /\ pc = "start"
  /\ IF UsageError(argc, command) THEN LogFatal("usage") ELSE pc' = "mkdir" /\ UNCHANGED << exitCode, exitAt >>
  /\ UNCHANGED << startVars, confVars, forgeVars, dirVars, remoteVars, repoVars,
                  wt, needsIgnoreFile, toolSaw, commitVars, pushAuth, ops >>

\* Lines 58-60: os.MkdirAll(reviewResultsDir).
MkdirResults ==
  /\ pc = "mkdir"
  /\ \E ok \in BOOLEAN :
       IF ok THEN pc' = "config" /\ UNCHANGED << exitCode, exitAt >>
             ELSE LogFatal("mkdir")
  /\ UNCHANGED << startVars, confVars, forgeVars, dirVars, remoteVars, repoVars,
                  wt, needsIgnoreFile, toolSaw, commitVars, pushAuth, ops >>

\* Lines 62-65: conf, err = unmarshalConfigFile().  conf is assigned the
\* returned value also when the call reports an error.
LoadConfig ==
  /\ pc = "config"
  /\ \E f \in ConfigFiles :
       /\ configOnDisk' = f
       /\ conf' = unmarshalConfigFile(f).result
       /\ IF unmarshalConfigFile(f).err
            THEN LogFatal("config")
            ELSE pc' = "fork" /\ UNCHANGED << exitCode, exitAt >>
  /\ UNCHANGED << startVars, forgeVars, dirVars, remoteVars, repoVars,
                  wt, needsIgnoreFile, toolSaw, commitVars, pushAuth, ops >>

\* A comparison with the whole message instead of a search in it.
MutantIsScheduledExact(e) == e = ScheduledMsg

\* Line 75: the fork error that stands for "accepted, not yet available".
IsScheduled(e) == Contains(e, ScheduledMsg)

\* Lines 73-80: the fork request, and the deadline of the polling loop.  The
\* forge decides here whether and when the fork becomes readable.
CreateFork ==
  /\ pc = "fork"
  /\ forkRequested' = TRUE
  /\ \E e \in ForkErrors :
       /\ err' = e
       /\ IF e # NoErr /\ ~IsScheduled(e)
            THEN /\ LogFatal("fork")
                 /\ UNCHANGED << forkEverReady, forkReadyAt, timeout >>
            ELSE /\ pc' = "pollCheck"
                 /\ timeout' = now + TimeoutSecs
                 /\ forkEverReady' \in BOOLEAN
                 /\ forkReadyAt' \in (IF forkEverReady' THEN ReadyTimes ELSE {0})
                 /\ UNCHANGED << exitCode, exitAt >>
  /\ UNCHANGED << startVars, confVars, now, nGet, slowCalls, getOk, getOkLate,
                  dirVars, remoteVars, repoVars, wt, needsIgnoreFile, toolSaw,
                  commitVars, pushAuth, ops >>

\* The comparison of line 82 the other way round.
MutantDeadlineReversed(t, deadline) == deadline > t

\* Line 82: time.Now().After(timeout).
DeadlinePassed(t, deadline) == t > deadline

\* Lines 81-84: the head of the polling loop.
PollCheck ==
  /\ pc = "pollCheck"
  /\ IF DeadlinePassed(now, timeout)
       THEN LogFatal("poll")
       ELSE pc' = "pollGet" /\ UNCHANGED << exitCode, exitAt >>
  /\ UNCHANGED << startVars, confVars, forgeVars, dirVars, remoteVars, repoVars,
                  wt, needsIgnoreFile, toolSaw, commitVars, pushAuth, ops >>

\* A loop that is left after the first query whatever its result.
MutantAfterGetAlwaysLeaves(success) == "tempdir"

\* Lines 87-92: a failed query waits and repeats, a successful one leaves the
\* loop.
AfterGet(success) == IF success THEN "tempdir" ELSE "pollSleep"

\* Lines 86-92: one readiness query.  It answers d seconds after it was sent
\* and succeeds when the fork is readable by then; on success the loop is
\* left (break), on failure the error is kept and the loop waits.
PollGet ==
  /\ pc = "pollGet"
  /\ \E d \in 0..MaxCallSecs :
       /\ d > 0 => slowCalls < MaxSlowCalls
       /\ slowCalls' = IF d > 0 THEN slowCalls + 1 ELSE slowCalls
       /\ now' = now + d
       /\ nGet' = nGet + 1
       /\ IF forkEverReady /\ forkReadyAt <= now'
            THEN /\ err' = NoErr
                 /\ getOk' = TRUE
                 /\ getOkLate' = (now' > timeout)
                 /\ pc' = AfterGet(TRUE)
            ELSE /\ err' = <<"GET /repos:", "404", "Not Found">>
                 /\ UNCHANGED << getOk, getOkLate >>
                 /\ pc' = AfterGet(FALSE)
  /\ UNCHANGED << startVars, confVars, exitCode, exitAt, forkRequested,
                  forkEverReady, forkReadyAt, timeout, dirVars, remoteVars,
                  repoVars, wt, needsIgnoreFile, toolSaw, commitVars, pushAuth, ops >>

\* Lines 89-90: time.Sleep(2 s); continue.
PollSleep ==
  /\ pc = "pollSleep"
  /\ now' = now + SleepSecs
  /\ pc' = "pollCheck"
  /\ UNCHANGED << startVars, confVars, exitCode, exitAt, err, forkRequested,
                  forkEverReady, forkReadyAt, timeout, nGet, slowCalls, getOk,
                  getOkLate, dirVars, remoteVars, repoVars, wt, needsIgnoreFile,
                  toolSaw, commitVars, pushAuth, ops >>

\* Lines 98-102: ioutil.TempDir, and the deferred removal.
TempDir ==
  /\ pc = "tempdir"
  /\ ops' = Append(ops, "tempdir")
  /\ \E ok \in BOOLEAN :
       IF ok THEN /\ dirCreated' = TRUE
                  /\ dirExists' = TRUE
                  /\ pc' = "clone"
                  /\ UNCHANGED << exitCode, exitAt >>
             ELSE /\ LogFatal("tempdir")
                  /\ UNCHANGED dirVars
  /\ UNCHANGED << startVars, confVars, forgeVars, remoteVars, repoVars, wt,
                  needsIgnoreFile, toolSaw, commitVars, pushAuth >>

\* Lines 107-113: git.PlainClone with the default options.  The clone holds
\* one local branch, the fork's default branch, checked out; the other
\* branches of the fork are remote-tracking references only.
PlainClone ==
  /\ pc = "clone"
  /\ ops' = Append(ops, "clone")
  /\ \E ok \in BOOLEAN :
       IF ok
         THEN \E refs \in ForkRefs, tree \in RepoTrees :
                /\ remoteRefs' = refs
                /\ clonedRefs' = refs
                /\ defaultBranch' = DefaultBranchOf(refs)
                /\ objects' = {refs[b] : b \in DOMAIN refs}
                /\ localRefs' = [b \in {DefaultBranchOf(refs)} |-> refs[b]]
                /\ head' = DefaultBranchOf(refs)
                /\ headTree' = tree
                /\ index' = tree
                /\ wt' = tree
                /\ pc' = "dispatch"
                /\ UNCHANGED << exitCode, exitAt >>
         ELSE /\ LogFatal("clone")
              /\ UNCHANGED << remoteVars, repoVars, wt >>
  /\ UNCHANGED << startVars, confVars, forgeVars, dirVars, needsIgnoreFile,
                  toolSaw, commitVars, pushAuth >>

\* A switch whose default case falls into the review handler.
MutantHandlerForDefaultsToReview(cmd) ==
  IF cmd = "rewrite" THEN "rwChdir" ELSE "rvReadDir"

\* Lines 118-131: the handler the switch selects; "none" is the default case.
HandlerFor(cmd) ==
  CASE cmd = "review" -> "rvReadDir"
    [] cmd = "rewrite" -> "rwChdir"
    [] OTHER -> "none"

\* Lines 117-132: the switch on os.Args[1].
Dispatch ==
  /\ pc = "dispatch"
  /\ IF HandlerFor(command) # "none"
       THEN pc' = HandlerFor(command) /\ UNCHANGED << exitCode, exitAt >>
       ELSE LogFatal("dispatch")
  /\ UNCHANGED << startVars, confVars, forgeVars, dirVars, remoteVars, repoVars,
                  wt, needsIgnoreFile, toolSaw, commitVars, pushAuth, ops >>

\* ---------------------------------------------------------------- runCmd
\* Lines 136-139: os.Chdir(dir); the error goes back through the handler to
\* log.Fatal in main.
RunCmdChdir ==
  /\ pc = "runChdir"
  /\ \E ok \in BOOLEAN :
       IF ok THEN pc' = "runCmd" /\ UNCHANGED << exitCode, exitAt >>
             ELSE LogFatal("runChdir")
  /\ UNCHANGED << startVars, confVars, forgeVars, dirVars, remoteVars, repoVars,
                  wt, needsIgnoreFile, toolSaw, commitVars, pushAuth, ops >>

\* What "lingo run rewrite" may leave in the working tree when it exits 0:
\* nothing changed, or the comments of main.go rewritten.  "lingo run review"
\* writes its report outside the workspace.
ToolResults(cmd, t) ==
  IF cmd = "rewrite" THEN {t, WriteFile(t, "main.go", ToolSource)} ELSE {t}

\* A review handler that falls into the staging of handleRewrite.
MutantAfterRunCmdAlwaysStages(cmd) == "rwAddGlob"

\* Where the handler goes on after runCmd returned nil: handleRewrite to
\* line 212, handleReview back to main.
AfterRunCmd(cmd) == IF cmd = "rewrite" THEN "rwAddGlob" ELSE "return"

\* Lines 143-149: cmd.Run().  A start failure and a non-zero exit both come
\* back as an error: the directory is removed on the spot and the error is
\* returned, which ends in log.Fatal in main.
RunCmdRun ==
  /\ pc = "runCmd"
  /\ ops' = Append(ops, "tool")
  /\ toolSaw' = wt
  /\ \E outcome \in {"exit0", "nonzero", "nostart"} :
       IF outcome = "exit0"
         THEN /\ wt' \in ToolResults(command, wt)
              /\ pc' = AfterRunCmd(command)
              /\ UNCHANGED << exitCode, exitAt, dirExists >>
         ELSE /\ RemoveAll
              /\ LogFatal("tool")
  /\ UNCHANGED << startVars, confVars, forgeVars, dirCreated, remoteVars,
                  repoVars, needsIgnoreFile, commitVars, pushAuth >>

\* A handler that goes on without calling runCmd.
MutantAfterInjectionSkipsTool == "rwAddGlob"

\* Lines 206-208 and 290-291: once the scaffolding is written the handler
\* calls runCmd.
AfterInjection == "runChdir"

\* ---------------------------------------------------------- handleRewrite
\* Lines 153-156.
RwChdir ==
  /\ pc = "rwChdir"
  /\ \E ok \in BOOLEAN :
       IF ok THEN pc' = "rwWorktree" /\ UNCHANGED << exitCode, exitAt >>
             ELSE LogFatal("rwChdir")
  /\ UNCHANGED << startVars, confVars, forgeVars, dirVars, remoteVars, repoVars,
                  wt, needsIgnoreFile, toolSaw, commitVars, pushAuth, ops >>

\* Lines 158-161: r.Worktree().
RwWorktree ==
  /\ pc = "rwWorktree"
  /\ \E ok \in BOOLEAN :
       IF ok THEN pc' = "rwCheckout" /\ UNCHANGED << exitCode, exitAt >>
             ELSE LogFatal("rwWorktree")
  /\ UNCHANGED << startVars, confVars, forgeVars, dirVars, remoteVars, repoVars,
                  wt, needsIgnoreFile, toolSaw, commitVars, pushAuth, ops >>

\* worktree.Checkout with Create false resolves refs/heads/<branch> among the
\* local references; a remote-tracking reference of that name does not count.
CanCheckout(refs, b) == b \in DOMAIN refs

\* Lines 163-169: the checkout of refs/heads/rewrite without creation.  Its
\* error is not returned: it sends the handler to the creating checkout.
RwCheckout ==
  /\ pc = "rwCheckout"
  /\ ops' = Append(ops, "checkout")
  /\ \E ok \in BOOLEAN :
       IF ok /\ CanCheckout(localRefs, branchName)
         THEN /\ head' = branchName
              /\ pc' = "rwReadDir"
         ELSE /\ UNCHANGED head
              /\ pc' = "rwCreate"
  /\ UNCHANGED << startVars, confVars, forgeVars, dirVars, remoteVars, objects,
                  localRefs, headTree, index, wt, needsIgnoreFile, toolSaw,
                  commitVars, pushAuth, exitCode, exitAt >>

\* Lines 170-175: the checkout with Create true.  createBranch refuses a name
\* that is already a local reference, and otherwise points the new branch at
\* the commit of HEAD.
RwCheckoutCreate ==
  /\ pc = "rwCreate"
  /\ ops' = Append(ops, "checkoutCreate")
  /\ \E ok \in BOOLEAN :
       IF ok /\ branchName \notin DOMAIN localRefs
         THEN /\ localRefs' = [b \in (DOMAIN localRefs) \cup {branchName} |->
                                 IF b = branchName THEN localRefs[head] ELSE localRefs[b]]
              /\ head' = branchName
              /\ pc' = "rwReadDir"
              /\ UNCHANGED << exitCode, exitAt >>
         ELSE /\ LogFatal("rwCreate")
              /\ UNCHANGED << localRefs, head >>
  /\ UNCHANGED << startVars, confVars, forgeVars, dirVars, remoteVars, objects,
                  headTree, index, wt, needsIgnoreFile, toolSaw, commitVars, pushAuth >>

\* Lines 179-189: the scan of the workspace root.
RwReadDir ==
  /\ pc = "rwReadDir"
  /\ ops' = Append(ops, "readdir")
  /\ \E ok \in BOOLEAN :
       IF ok THEN /\ needsIgnoreFile' = NeedsIgnoreFile(ReadDir(wt))
                  /\ pc' = "rwWriteYaml"
                  /\ UNCHANGED << exitCode, exitAt >>
             ELSE /\ LogFatal("rwReadDir")
                  /\ UNCHANGED needsIgnoreFile
  /\ UNCHANGED << startVars, confVars, forgeVars, dirVars, remoteVars, repoVars,
                  wt, toolSaw, commitVars, pushAuth >>

\* Lines 191-195: ioutil.WriteFile(codelingo.yaml, yamlDataRewrite).
RwWriteYaml ==
  /\ pc = "rwWriteYaml"
  /\ ops' = Append(ops, "writeYaml")
  /\ \E ok \in BOOLEAN :
       IF ok THEN /\ wt' = WriteFile(wt, yamlName, yamlDataRewrite)
                  /\ pc' = IF needsIgnoreFile THEN "rwWriteIgnore" ELSE AfterInjection
                  /\ UNCHANGED << exitCode, exitAt >>
             ELSE /\ LogFatal("rwWriteYaml")
                  /\ UNCHANGED wt
  /\ UNCHANGED << startVars, confVars, forgeVars, dirVars, remoteVars, repoVars,
                  needsIgnoreFile, toolSaw, commitVars, pushAuth >>

\* Lines 197-204: the ignore file, when the scan asked for it.
RwWriteIgnore ==
  /\ pc = "rwWriteIgnore"
  /\ ops' = Append(ops, "writeIgnore")
  /\ \E ok \in BOOLEAN :
       IF ok THEN /\ wt' = WriteFile(wt, ignoreFileName, ignoreData)
                  /\ pc' = AfterInjection
                  /\ UNCHANGED << exitCode, exitAt >>
             ELSE /\ LogFatal("rwWriteIgnore")
                  /\ UNCHANGED wt
  /\ UNCHANGED << startVars, confVars, forgeVars, dirVars, remoteVars, repoVars,
                  needsIgnoreFile, toolSaw, commitVars, pushAuth >>

\* worktree.AddGlob("."): every file found in the working tree is copied into
\* the index; paths that are in the index only are left there.
AddGlobAll(idx, t) ==
  [p \in (DOMAIN idx) \cup (DOMAIN t) |-> IF p \in DOMAIN t THEN t[p] ELSE idx[p]]

\* Lines 212-215.
RwAddGlob ==
  /\ pc = "rwAddGlob"
  /\ ops' = Append(ops, "stage")
  /\ \E ok \in BOOLEAN :
       IF ok THEN /\ index' = AddGlobAll(index, wt)
                  /\ pc' = "rwRemoveYaml"
                  /\ UNCHANGED << exitCode, exitAt >>
             ELSE /\ LogFatal("rwAddGlob")
                  /\ UNCHANGED index
  /\ UNCHANGED << startVars, confVars, forgeVars, dirVars, remoteVars, objects,
                  localRefs, head, headTree, wt, needsIgnoreFile, toolSaw,
                  commitVars, pushAuth >>

\* A removal that deletes the file but leaves its index entry.
MutantRemoveKeepsIndexEntry(idx, p) == idx

\* worktree.Remove(path): the entry leaves the index and the file leaves the
\* working tree; a path that is not in the index is an error.
RemoveFromIndex(idx, p) == DeleteFile(idx, p)

WorktreeRemove(p, okStage, failStage, next) ==
  /\ \E ok \in BOOLEAN :
       IF ok /\ p \in DOMAIN index
         THEN /\ index' = RemoveFromIndex(index, p)
              /\ wt' = DeleteFile(wt, p)
              /\ pc' = next
              /\ UNCHANGED << exitCode, exitAt >>
         ELSE /\ LogFatal(failStage)
              /\ UNCHANGED << index, wt >>
  /\ ops' = Append(ops, okStage)

\* A handler that never takes the ignore file out of the index.
MutantAfterRemoveYamlSkipsIgnore(needs) == "rwCommit"

\* Lines 221-228: the ignore file is removed too when it was written.
AfterRemoveYaml(needs) == IF needs THEN "rwRemoveIgnore" ELSE "rwCommit"

\* Lines 216-219.
RwRemoveYaml ==
  /\ pc = "rwRemoveYaml"
  /\ WorktreeRemove(yamlName, "rmYaml", "rwRemoveYaml",
                    AfterRemoveYaml(needsIgnoreFile))
  /\ UNCHANGED << startVars, confVars, forgeVars, dirVars, remoteVars, objects,
                  localRefs, head, headTree, needsIgnoreFile, toolSaw,
                  commitVars, pushAuth >>

\* Lines 221-226.
RwRemoveIgnore ==
  /\ pc = "rwRemoveIgnore"
  /\ WorktreeRemove(ignoreFileName, "rmIgnore", "rwRemoveIgnore", "rwCommit")
  /\ UNCHANGED << startVars, confVars, forgeVars, dirVars, remoteVars, objects,
                  localRefs, head, headTree, needsIgnoreFile, toolSaw,
                  commitVars, pushAuth >>

\* Lines 228-234: worktree.Commit.  It may fail before the commit object is
\* built (the hash returned is ZeroHash), or after the object was stored while
\* moving the branch of HEAD (the hash of the stored commit is returned with
\* the error).  The error itself is overwritten on line 236.
RwCommit ==
  /\ pc = "rwCommit"
  /\ ops' = Append(ops, "commit")
  /\ \E outcome \in {"ok", "early", "late"} :
       /\ commitErr' = (outcome # "ok")
       /\ IF outcome = "early"
           THEN /\ commitHash' = ZeroHash
                /\ UNCHANGED << objects, localRefs, commitTree, commitParent,
                                commitBranch, commitAuthor >>
           ELSE /\ commitHash' = "N"
                /\ objects' = objects \cup {"N"}
                /\ commitTree' = index
                /\ commitParent' = localRefs[head]
                /\ commitBranch' = head
                /\ commitAuthor' = [name |-> conf.username, email |-> conf.email]
                /\ localRefs' = IF outcome = "ok"
                                  THEN [localRefs EXCEPT ![head] = "N"]
                                  ELSE localRefs
  /\ pc' = "rwCommitObject"
  /\ UNCHANGED << startVars, confVars, forgeVars, dirVars, remoteVars, head,
                  headTree, index, wt, needsIgnoreFile, toolSaw, pushAuth,
                  exitCode, exitAt >>

\* Lines 236-239: r.CommitObject(commit) finds the commit in the object store
\* or reports an error.
RwCommitObject ==
  /\ pc = "rwCommitObject"
  /\ \E ok \in BOOLEAN :
       IF ok /\ commitHash \in objects
         THEN pc' = "rwPush" /\ UNCHANGED << exitCode, exitAt >>
         ELSE LogFatal("rwCommit")
  /\ UNCHANGED << startVars, confVars, forgeVars, dirVars, remoteVars, repoVars,
                  wt, needsIgnoreFile, toolSaw, commitVars, pushAuth, ops >>

\* The commits reachable from c through parents.
Parent(c) == CASE c = "N" -> commitParent [] c = "R" -> "D" [] OTHER -> ZeroHash
AncestorsOf(c) == {c, Parent(c), Parent(Parent(c))} \ {ZeroHash}

\* r.Push with the default refspec refs/heads/*:refs/heads/*: the local
\* branches that differ from the remote ones are the updates.
PushUpdates(local, remote) ==
  { b \in DOMAIN local : b \notin DOMAIN remote \/ remote[b] # local[b] }
\* An update of an existing remote branch must be a fast-forward.
FastForward(local, remote, b) ==
  b \notin DOMAIN remote \/ remote[b] \in AncestorsOf(local[b])
PushResult(local, remote) ==
  CASE PushUpdates(local, remote) = {} -> "already up-to-date"
    [] \E b \in PushUpdates(local, remote) : ~FastForward(local, remote, b) -> "non-fast-forward update"
    [] OTHER -> "ok"

\* Lines 243-255: r.Push to origin with the token as password.
RwPush ==
  /\ pc = "rwPush"
  /\ ops' = Append(ops, "push")
  /\ pushAuth' = conf.token
  /\ \E ok \in BOOLEAN :
       IF ok /\ PushResult(localRefs, remoteRefs) = "ok"
         THEN /\ remoteRefs' = [b \in (DOMAIN remoteRefs) \cup (DOMAIN localRefs) |->
                                  IF b \in DOMAIN localRefs THEN localRefs[b] ELSE remoteRefs[b]]
              /\ pc' = "return"
              /\ UNCHANGED << exitCode, exitAt >>
         ELSE /\ LogFatal(IF ok THEN PushResult(localRefs, remoteRefs) ELSE "rwPush")
              /\ UNCHANGED remoteRefs
  /\ UNCHANGED << startVars, confVars, forgeVars, dirVars, defaultBranch,
                  clonedRefs, repoVars, wt, needsIgnoreFile, toolSaw, commitVars >>

\* ----------------------------------------------------------- handleReview
\* Lines 263-273.
RvReadDir ==
  /\ pc = "rvReadDir"
  /\ ops' = Append(ops, "readdir")
  /\ \E ok \in BOOLEAN :
       IF ok THEN /\ needsIgnoreFile' = NeedsIgnoreFile(ReadDir(wt))
                  /\ pc' = "rvWriteYaml"
                  /\ UNCHANGED << exitCode, exitAt >>
             ELSE /\ LogFatal("rvReadDir")
                  /\ UNCHANGED needsIgnoreFile
  /\ UNCHANGED << startVars, confVars, forgeVars, dirVars, remoteVars, repoVars,
                  wt, toolSaw, commitVars, pushAuth >>

\* Line 276: the content handleReview writes to codelingo.yaml.
ReviewYamlContent == yamlDataRewrite

\* Lines 275-279.
RvWriteYaml ==
  /\ pc = "rvWriteYaml"
  /\ ops' = Append(ops, "writeYaml")
  /\ \E ok \in BOOLEAN :
       IF ok THEN /\ wt' = WriteFile(wt, yamlName, ReviewYamlContent)
                  /\ pc' = IF needsIgnoreFile THEN "rvWriteIgnore" ELSE AfterInjection
                  /\ UNCHANGED << exitCode, exitAt >>
             ELSE /\ LogFatal("rvWriteYaml")
                  /\ UNCHANGED wt
  /\ UNCHANGED << startVars, confVars, forgeVars, dirVars, remoteVars, repoVars,
                  needsIgnoreFile, toolSaw, commitVars, pushAuth >>

\* Lines 281-288.
RvWriteIgnore ==
  /\ pc = "rvWriteIgnore"
  /\ ops' = Append(ops, "writeIgnore")
  /\ \E ok \in BOOLEAN :
       IF ok THEN /\ wt' = WriteFile(wt, ignoreFileName, ignoreData)
                  /\ pc' = AfterInjection
                  /\ UNCHANGED << exitCode, exitAt >>
             ELSE /\ LogFatal("rvWriteIgnore")
                  /\ UNCHANGED wt
  /\ UNCHANGED << startVars, confVars, forgeVars, dirVars, remoteVars, repoVars,
                  needsIgnoreFile, toolSaw, commitVars, pushAuth >>

\* ------------------------------------------------------------ the program
Next ==
  \/ CheckArgs
  \/ MkdirResults
  \/ LoadConfig
  \/ CreateFork
  \/ PollCheck
  \/ PollGet
  \/ PollSleep
  \/ TempDir
  \/ PlainClone
  \/ Dispatch
  \/ RwChdir
  \/ RwWorktree
  \/ RwCheckout
  \/ RwCheckoutCreate
  \/ RwReadDir
  \/ RwWriteYaml
  \/ RwWriteIgnore
  \/ RunCmdChdir
  \/ RunCmdRun
  \/ RwAddGlob
  \/ RwRemoveYaml
  \/ RwRemoveIgnore
  \/ RwCommit
  \/ RwCommitObject
  \/ RwPush
  \/ RvReadDir
  \/ RvWriteYaml
  \/ RvWriteIgnore
  \/ MainReturn

Spec == Init /\ [][Next]_vars

\* The process is sequential and every call returns: a step that is possible
\* is eventually taken.
FairSpec == Spec /\ WF_vars(Next)

\* ================================================================ claims
\* The operation op was attempted in this run.
Did(op) == \E i \in 1..Len(ops) : ops[i] = op
Terminated == pc = "done"

\* C1: once the temporary directory was created, it is gone from the disk when
\* the process has terminated, whatever the exit path.
C1_WorkspaceGoneAtExit == (Terminated /\ dirCreated) => ~dirExists

NoCloneToolCommitPush ==
  ~Did("clone") /\ ~Did("tool") /\ ~Did("commit") /\ ~Did("push")

\* C2, as stated: a run in which no readiness query has succeeded before the
\* deadline never clones, runs the tool, commits or pushes.
C2_NoCloneUnlessReadyBeforeDeadline ==
  (~getOk \/ getOkLate) => NoCloneToolCommitPush

\* C2, amended: as long as no readiness query has succeeded, nothing after the
\* polling loop is attempted; a run that polls and in which no query ever
\* succeeds ends in log.Fatal of the polling loop, after the deadline, with a
\* non-zero status and without a clone, tool run, commit or push.
C2_NeverReadyEndsInPollTimeout ==
  /\ [](~getOk => NoCloneToolCommitPush)
  /\ (<>(pc = "pollCheck") /\ [](~getOk))
       => <>(Terminated /\ exitAt = "poll" /\ exitCode = 1 /\ now > timeout
               /\ NoCloneToolCommitPush)

\* C2 witness: a run that timed out in the polling loop after at least one
\* failed query.
C2_Witness ==
  Terminated /\ exitAt = "poll" /\ nGet > 0 /\ ~getOk /\ exitCode = 1

\* C3: a rewrite run against a fork that already has the branch "rewrite"
\* resolves the branch with the no-create checkout and not by creating it
\* again from HEAD, and its push does not fail because the branch exists on
\* the fork.
C3_ExistingBranchReused ==
  (command = "rewrite" /\ branchName \in DOMAIN clonedRefs)
    => /\ Did("readdir") => ~Did("checkoutCreate")
       /\ exitAt # "non-fast-forward update"

\* C4: no commit is created on the branch that was HEAD after the clone, and
\* no push moves that branch on the fork, whatever its name.
C4_NeverCommitsToDefaultBranch ==
  /\ commitBranch # defaultBranch
  /\ remoteRefs[defaultBranch] = "D"

SuccessfulRewrite == Terminated /\ exitCode = 0 /\ command = "rewrite"

\* C5: in a rewrite run that ended with status 0, codelingo.yaml (and
\* .codelingoignore when it was written) was in the working tree when the
\* tool was started, and neither is in the tree of the commit the run made.
C5_ScaffoldingSeenByToolNotCommitted ==
  SuccessfulRewrite =>
    /\ yamlName \in DOMAIN toolSaw
    /\ needsIgnoreFile => ignoreFileName \in DOMAIN toolSaw
    /\ commitHash = "N"
    /\ yamlName \notin DOMAIN commitTree
    /\ needsIgnoreFile => ignoreFileName \notin DOMAIN commitTree

\* C5 witness: a successful rewrite run on a repository that tracks both
\* scaffolding names and has a vendor directory, whose commit reached the fork
\* with the file the tool changed.
C5_Witness ==
  /\ SuccessfulRewrite
  /\ needsIgnoreFile
  /\ {yamlName, ignoreFileName} \subseteq DOMAIN headTree
  /\ remoteRefs[branchName] = "N"
  /\ commitTree["main.go"] = ToolSource

\* C6: when the tool exits non-zero or cannot be started, in either mode, the
\* process ends with a non-zero status, the temporary directory is gone, and
\* no stage, commit or push was attempted.
C6_ToolFailureCleansUpAndStops ==
  exitAt = "tool" =>
    /\ Terminated
    /\ exitCode = 1
    /\ ~dirExists
    /\ ~Did("stage") /\ ~Did("rmYaml") /\ ~Did("commit") /\ ~Did("push")
    /\ ops[Len(ops)] = "tool"

\* C6 witness: a rewrite run whose tool failed after the directory was
\* created and both scaffolding files were written.
C6_Witness ==
  /\ exitAt = "tool"
  /\ command = "rewrite"
  /\ dirCreated
  /\ Did("writeIgnore")

\* C7: a review run never checks out, stages, commits or pushes, and the
\* branches of the fork stay as they were cloned.
C7_ReviewNeverMutatesFork ==
  command = "review" =>
    /\ ~Did("checkout") /\ ~Did("checkoutCreate") /\ ~Did("stage")
    /\ ~Did("rmYaml") /\ ~Did("rmIgnore") /\ ~Did("commit") /\ ~Did("push")
    /\ commitHash = ZeroHash
    /\ Did("clone") /\ exitAt # "clone" => remoteRefs = clonedRefs

\* C7 witness: a review run that ended with status 0 after the tool ran.
C7_Witness ==
  Terminated /\ exitCode = 0 /\ command = "review" /\ Did("tool")

\* C8: the content written to codelingo.yaml is the review content in review
\* mode and the rewrite content in rewrite mode, replacing a file of that name.
C8_YamlContentPerMode ==
  (Did("tool") /\ yamlName \in DOMAIN toolSaw) =>
    toolSaw[yamlName] = IF command = "review" THEN yamlDataReview ELSE yamlDataRewrite

\* C9: a config.yaml with a field the schema does not know is an error: the
\* process ends non-zero in the config step and no fork request is issued.
C9_StrictConfigRejected ==
  (configOnDisk.exists /\ configOnDisk.extra) =>
    /\ ~forkRequested
    /\ pc # "config" => (Terminated /\ exitCode = 1 /\ exitAt = "config")

\* C10: the fork request goes on to the polling loop when it succeeded or
\* failed with a message containing the scheduled text, and otherwise ends
\* the process at once, before any readiness query.
C10_ForkOutcome ==
  /\ [](exitAt = "fork" => (Terminated /\ exitCode = 1 /\ nGet = 0 /\ ops = <<>>))
  /\ [][pc = "fork" =>
          IF err' = NoErr \/ Contains(err', ScheduledMsg)
            THEN pc' = "pollCheck" /\ exitCode' = -1 /\ timeout' = now + TimeoutSecs
            ELSE pc' = "done" /\ exitAt' = "fork"]_vars

\* C10 witness: the polling loop entered after a fork error that carries the
\* scheduled text inside a longer message.
C10_Witness ==
  /\ pc = "pollGet"
  /\ nGet = 0
  /\ Len(err) > Len(ScheduledMsg)
  /\ Contains(err, ScheduledMsg)

ValidCommand == command \in {"review", "rewrite"}

\* C11: in both modes .codelingoignore is written exactly when the root of
\* the clone has an entry named "vendor" that is a directory; a regular file
\* of that name or a directory of another name does not count.
C11_IgnoreFileIffVendorDir ==
  /\ Did("writeIgnore") => "vendor/dep.go" \in DOMAIN headTree
  /\ Did("tool") => (Did("writeIgnore") <=> "vendor/dep.go" \in DOMAIN headTree)
  /\ (Did("tool") /\ Did("writeIgnore")) => toolSaw[ignoreFileName] = ignoreData
  /\ (Did("tool") /\ ~Did("writeIgnore") /\ ignoreFileName \in DOMAIN toolSaw)
       => toolSaw[ignoreFileName] = OrigIgnore

\* C11 witness: a review run on a clone with a vendor directory, in which the
\* ignore file was written before the tool ran.
C11_Witness ==
  /\ command = "review"
  /\ "vendor/dep.go" \in DOMAIN headTree
  /\ Did("writeIgnore")
  /\ Did("tool")

\* C12: a run with a wrong number of arguments or an unknown command ends
\* with a non-zero status; the switch on an unknown command changes nothing
\* but the ending of the process, and such a run never scans, writes
\* scaffolding, runs the tool, checks out, stages, commits or pushes.
C12_UsageErrorsOnlyFail ==
  /\ []((Terminated /\ (argc # NumArgs \/ ~ValidCommand)) => exitCode = 1)
  /\ [](argc # NumArgs => (pc \in {"start", "done"} /\ ~forkRequested /\ ops = <<>>))
  /\ [](~ValidCommand =>
          /\ ~Did("readdir") /\ ~Did("writeYaml") /\ ~Did("writeIgnore")
          /\ ~Did("tool") /\ ~Did("checkout") /\ ~Did("checkoutCreate")
          /\ ~Did("stage") /\ ~Did("commit") /\ ~Did("push"))
  /\ [][(pc = "dispatch" /\ ~ValidCommand) =>
          /\ pc' = "done" /\ exitCode' = 1 /\ exitAt' = "dispatch"
          /\ UNCHANGED << dirVars, remoteVars, repoVars, wt, commitVars, pushAuth, ops >>]_vars

\* C12 witness: a run with four arguments rejected by the switch.
C12_Witness ==
  Terminated /\ exitAt = "dispatch" /\ argc = NumArgs /\ ~ValidCommand

\* C13: conf is assigned in the config step only; the author of the commit
\* is the username and email of config.yaml and the password of the push is
\* its token.
C13_CredentialsFixedAndUsed ==
  /\ [][pc # "config" => conf' = conf]_vars
  /\ [](commitHash = "N" =>
          commitAuthor = [name |-> configOnDisk.username, email |-> configOnDisk.email])
  /\ [](Did("push") => pushAuth = configOnDisk.token)

\* C13 witness: a commit was made and pushed with the credentials of a
\* config.yaml that names a user.
C13_Witness ==
  /\ Did("push")
  /\ commitHash = "N"
  /\ configOnDisk.username = "alice"
  /\ commitAuthor.name = "alice"
  /\ pushAuth = "t0k3n"

\* How often op was attempted, and the place of its first attempt (0: never).
Count(op) == Cardinality({i \in 1..Len(ops) : ops[i] = op})
Pos(op) == IF Did(op) THEN CHOOSE i \in 1..Len(ops) : ops[i] = op ELSE 0
PublishSteps == {"stage", "rmYaml", "rmIgnore", "commit", "push"}

\* C14: in rewrite mode a failing creating checkout, stage, removal, commit
\* or push ends the run with a non-zero status, nothing of the sequence runs
\* after the failing step (a failed commit is never followed by a push), and
\* stage, commit and push are attempted at most once.
C14_RewriteFailuresAbortAtOnce ==
  command = "rewrite" =>
    /\ Count("stage") <= 1 /\ Count("commit") <= 1 /\ Count("push") <= 1
    /\ exitAt \in {"rwCreate", "rwAddGlob", "rwRemoveYaml", "rwRemoveIgnore",
                   "rwCommit", "rwPush", "non-fast-forward update", "already up-to-date"}
         => (Terminated /\ exitCode = 1)
    /\ exitAt = "rwCreate" => ~Did("readdir")
    /\ exitAt = "rwAddGlob" => ~Did("rmYaml")
    /\ exitAt \in {"rwRemoveYaml", "rwRemoveIgnore"} => ~Did("commit")
    /\ commitErr => ~Did("push")
    /\ (commitErr /\ Terminated) => exitCode = 1

\* C15, as stated: in rewrite mode every step of Branch/Commit/Push, the
\* checkout or creation of the branch included, comes after the scaffolding
\* was written and the tool has exited successfully.
C15_BranchStepsAfterTool ==
  command = "rewrite" =>
    \A op \in PublishSteps \cup {"checkout", "checkoutCreate"} :
      Did(op) => /\ Did("writeYaml") /\ Pos("writeYaml") < Pos(op)
                 /\ Did("tool") /\ Pos("tool") < Pos(op)

\* C15, amended: in rewrite mode the branch is checked out or created first,
\* before the scaffolding is written; the scaffolding is written before the
\* tool is started; and stage, removal, commit and push come after the
\* scaffolding was written and the tool has exited successfully.
C15_CheckoutThenInjectionThenToolThenPublish ==
  command = "rewrite" =>
    /\ Did("writeYaml") =>
         /\ Did("checkout") /\ Pos("checkout") < Pos("writeYaml")
         /\ Did("checkoutCreate") => Pos("checkoutCreate") < Pos("writeYaml")
         /\ head = branchName
    /\ Did("writeIgnore") => (Did("writeYaml") /\ Pos("writeYaml") < Pos("writeIgnore"))
    /\ Did("tool") =>
         /\ Did("writeYaml") /\ Pos("writeYaml") < Pos("tool")
         /\ Did("writeIgnore") => Pos("writeIgnore") < Pos("tool")
         /\ yamlName \in DOMAIN toolSaw
    /\ \A op \in PublishSteps :
         Did(op) => (Did("tool") /\ Pos("tool") < Pos(op) /\ exitAt # "tool")

\* C15 witness: a rewrite run that created the branch, wrote both scaffolding
\* files, ran the tool and got as far as the push.
C15_Witness ==
  /\ command = "rewrite"
  /\ Did("checkoutCreate")
  /\ Did("writeIgnore")
  /\ Did("push")

\* C16: in a rewrite run that reaches the push, what happened from the start
\* of the tool on is, in this order and once each: tool, stage all, removal of
\* codelingo.yaml, removal of .codelingoignore exactly when it was written,
\* commit, push.
C16_PublishOrder ==
  (command = "rewrite" /\ Did("push")) =>
    /\ Did("tool")
    /\ SubSeq(ops, Pos("tool"), Len(ops)) =
         <<"tool", "stage", "rmYaml">>
           \o (IF Did("writeIgnore") THEN <<"rmIgnore">> ELSE <<>>)
           \o <<"commit", "push">>
    /\ \A op \in PublishSteps \cup {"tool"} : Count(op) <= 1

\* C16 witness: a pushed rewrite run in which the ignore file was written and
\* taken out of the index again.
C16_Witness ==
  /\ command = "rewrite"
  /\ Did("push")
  /\ Did("writeIgnore")
  /\ Did("rmIgnore")
  /\ exitCode = 0

InPollLoop == pc \in {"pollCheck", "pollGet", "pollSleep"}
\* Queries of a loop in which only the waits take time: one at time 0 and one
\* after every wait that ends no later than the deadline.
MaxQueries == TimeoutSecs \div SleepSecs + 1

\* C17: the polling loop always ends: a failed query is followed by a wait of
\* 2 seconds and the next test of the deadline, the first successful query
\* leaves the loop, a query is only sent while the deadline has not passed,
\* the loop ends the process only after the deadline, and when nothing but
\* the waits takes time at most 151 queries are sent.
C17_PollingTerminates ==
  /\ InPollLoop ~> ~InPollLoop
  /\ [](getOk => ~InPollLoop)
  /\ [][getOk => nGet' = nGet]_vars
  /\ [][pc = "pollSleep" => (pc' = "pollCheck" /\ now' = now + SleepSecs)]_vars
  /\ [][(pc = "pollGet" /\ ~getOk') => pc' = "pollSleep"]_vars
  /\ [](pc = "pollGet" => now <= timeout)
  /\ [](exitAt = "poll" => (now > timeout /\ ~getOk))
  /\ [](slowCalls = 0 => nGet <= MaxQueries)

\* C17 witness: a run that timed out after the 151 queries of a loop in
\* which only the waits took time.
C17_Witness ==
  /\ Terminated
  /\ exitAt = "poll"
  /\ slowCalls = 0
  /\ nGet = MaxQueries

\* C18: the process ends with status 0 only when no stage reported an error:
\* not the parse of config.yaml, not the commit, nor any other step.
C18_ExitZeroOnlyOnFullSuccess ==
  /\ (Terminated /\ exitAt # "return") => exitCode = 1
  /\ (Terminated /\ exitCode = 0) =>
       /\ ~UnmarshalStrict(configOnDisk).err
       /\ ~commitErr

\* C19: in a successful rewrite run whose commit reached the fork, the commit
\* and its parent agree on codelingo.yaml: both lack it or both hold it with
\* the same content.
C19_CommitLeavesYamlPathAlone ==
  (SuccessfulRewrite /\ remoteRefs[branchName] = "N") =>
    /\ yamlName \in DOMAIN headTree <=> yamlName \in DOMAIN commitTree
    /\ yamlName \in DOMAIN headTree => commitTree[yamlName] = headTree[yamlName]

\* C20: the command word is looked at by the switch only: a run with four
\* arguments is never rejected by the usage test, and when the switch rejects
\* it the fork was requested, a readiness query has succeeded and the fork
\* was cloned into a new directory; the usage test comes before all of that.
C20_CommandExaminedAfterClone ==
  /\ exitAt = "usage" => (argc # NumArgs /\ ~forkRequested /\ nGet = 0 /\ ~dirCreated)
  /\ (Terminated /\ argc # NumArgs) => exitAt = "usage"
  /\ exitAt = "dispatch" =>
       /\ argc = NumArgs /\ ~ValidCommand
       /\ forkRequested /\ getOk /\ nGet > 0
       /\ dirCreated /\ Did("clone") /\ head = defaultBranch
       /\ exitCode = 1
  /\ (Terminated /\ ~ValidCommand) =>
       exitAt \in {"usage", "mkdir", "config", "fork", "poll", "tempdir", "clone", "dispatch"}

\* C20 witness: an unknown command rejected after the fork was requested,
\* polled and cloned.
C20_Witness ==
  /\ exitAt = "dispatch"
  /\ command = "lint"
  /\ forkRequested
  /\ nGet > 0
  /\ Did("clone")
  /\ dirExists

====
